---- MODULE Spec2Model ----
\* Preprocessing of a translation unit that pulls in
\* PrivateHeaders/SwiftCxxBridge.hpp.  The header is modelled line by line;
\* the preprocessor state is the include position, the set of files marked
\* include-once, the set of files read so far and what they declared.
EXTENDS FiniteSets, Integers, Sequences, TLC

\* Number of include directives the translation unit issues.
MaxTU == 3

Bridge == "SwiftCxxBridge.hpp"

Ln(k, p, a) == [kind |-> k, path |-> p, angled |-> a]

\* BridgeLines with the #pragma once guard dropped.
BridgeLines_NoPragmaOnce ==
  << Ln("comment", "", FALSE), Ln("comment", "", FALSE), Ln("comment", "", FALSE),
     Ln("comment", "", FALSE), Ln("comment", "", FALSE), Ln("comment", "", FALSE),
     Ln("blank", "", FALSE),
     Ln("blank", "", FALSE),
     Ln("blank", "", FALSE),
     Ln("comment", "", FALSE),
     Ln("include", "tuple", TRUE),
     Ln("blank", "", FALSE),
     Ln("import", "Frame/InputImage.hpp", FALSE),
     Ln("import", "Session/NativeSession.hpp", FALSE),
     Ln("import", "NativeDocumentVerify.hpp", FALSE),
     Ln("import", "License/NativeLicenseProvider.hpp", FALSE) >>

\* BridgeLines with <tuple> included after the project headers.
BridgeLines_TupleLast ==
  << Ln("comment", "", FALSE), Ln("comment", "", FALSE), Ln("comment", "", FALSE),
     Ln("comment", "", FALSE), Ln("comment", "", FALSE), Ln("comment", "", FALSE),
     Ln("blank", "", FALSE),
     Ln("pragma_once", "", FALSE),
     Ln("blank", "", FALSE),
     Ln("comment", "", FALSE),
     Ln("blank", "", FALSE),
     Ln("import", "Frame/InputImage.hpp", FALSE),
     Ln("import", "Session/NativeSession.hpp", FALSE),
     Ln("import", "NativeDocumentVerify.hpp", FALSE),
     Ln("import", "License/NativeLicenseProvider.hpp", FALSE),
     Ln("include", "tuple", TRUE) >>

\* BridgeLines with one import lost.
BridgeLines_MissingImport ==
  << Ln("comment", "", FALSE), Ln("comment", "", FALSE), Ln("comment", "", FALSE),
     Ln("comment", "", FALSE), Ln("comment", "", FALSE), Ln("comment", "", FALSE),
     Ln("blank", "", FALSE),
     Ln("pragma_once", "", FALSE),
     Ln("blank", "", FALSE),
     Ln("comment", "", FALSE),
     Ln("include", "tuple", TRUE),
     Ln("blank", "", FALSE),
     Ln("import", "Frame/InputImage.hpp", FALSE),
     Ln("import", "Session/NativeSession.hpp", FALSE),
     Ln("import", "NativeDocumentVerify.hpp", FALSE),
     Ln("blank", "", FALSE) >>

\* BridgeLines with a macro definition of its own on line 12.
BridgeLines_OwnMacro ==
  << Ln("comment", "", FALSE), Ln("comment", "", FALSE), Ln("comment", "", FALSE),
     Ln("comment", "", FALSE), Ln("comment", "", FALSE), Ln("comment", "", FALSE),
     Ln("blank", "", FALSE),
     Ln("pragma_once", "", FALSE),
     Ln("blank", "", FALSE),
     Ln("comment", "", FALSE),
     Ln("include", "tuple", TRUE),
     Ln("define", "MB_BRIDGE", FALSE),
     Ln("import", "Frame/InputImage.hpp", FALSE),
     Ln("import", "Session/NativeSession.hpp", FALSE),
     Ln("import", "NativeDocumentVerify.hpp", FALSE),
     Ln("import", "License/NativeLicenseProvider.hpp", FALSE) >>

\* BridgeLines with a misspelt import path on line 14.
BridgeLines_WrongPath ==
  << Ln("comment", "", FALSE), Ln("comment", "", FALSE), Ln("comment", "", FALSE),
     Ln("comment", "", FALSE), Ln("comment", "", FALSE), Ln("comment", "", FALSE),
     Ln("blank", "", FALSE),
     Ln("pragma_once", "", FALSE),
     Ln("blank", "", FALSE),
     Ln("comment", "", FALSE),
     Ln("include", "tuple", TRUE),
     Ln("blank", "", FALSE),
     Ln("import", "Frame/InputImage.hpp", FALSE),
     Ln("import", "NativeSession.hpp", FALSE),
     Ln("import", "NativeDocumentVerify.hpp", FALSE),
     Ln("import", "License/NativeLicenseProvider.hpp", FALSE) >>

\* The sixteen lines of SwiftCxxBridge.hpp, one record per line.
BridgeLines ==
  << Ln("comment", "", FALSE), Ln("comment", "", FALSE), Ln("comment", "", FALSE),
     Ln("comment", "", FALSE), Ln("comment", "", FALSE), Ln("comment", "", FALSE),
     Ln("blank", "", FALSE),
     Ln("pragma_once", "", FALSE),
     Ln("blank", "", FALSE),
     Ln("comment", "", FALSE),
     Ln("include", "tuple", TRUE),
     Ln("blank", "", FALSE),
     Ln("import", "Frame/InputImage.hpp", FALSE),
     Ln("import", "Session/NativeSession.hpp", FALSE),
     Ln("import", "NativeDocumentVerify.hpp", FALSE),
     Ln("import", "License/NativeLicenseProvider.hpp", FALSE) >>

NumLines == Len(BridgeLines)

IsInclusion(l) == l.kind \in {"include", "import"}

\* Paths named by the header's quoted and angled inclusions.
QuotedPaths == {BridgeLines[i].path : i \in {j \in 1..NumLines : IsInclusion(BridgeLines[j]) /\ ~BridgeLines[j].angled}}
AngledPaths == {BridgeLines[i].path : i \in {j \in 1..NumLines : IsInclusion(BridgeLines[j]) /\ BridgeLines[j].angled}}

\* Contents of the framework's PrivateHeaders directory.
PrivateHeaders ==
  {Bridge, "Frame/InputImage.hpp", "Session/NativeSession.hpp",
   "NativeDocumentVerify.hpp", "License/NativeLicenseProvider.hpp"}

\* Headers of the toolchain, found on the angled search path.
SystemHeaders == {"tuple"}

\* Header lookup: a quoted path is looked up relative to the directory of
\* SwiftCxxBridge.hpp (PrivateHeaders), then on the system path; an angled
\* path only on the system path.
Resolves(path, angled) ==
  IF angled THEN path \in SystemHeaders
  ELSE path \in PrivateHeaders \/ path \in SystemHeaders

\* What a line of the header introduces into the translation unit.
DeclsOf(l) == IF l.kind = "text" THEN {[owner |-> Bridge, sym |-> l.path]} ELSE {}
MacrosOf(l) == IF l.kind = "define" THEN {[owner |-> Bridge, sym |-> l.path]} ELSE {}

VARIABLES
  pc,          \* 0: at translation-unit level; i >= 1: about to read line i of the header
  tuDone,      \* directives of the translation unit processed so far
  guarded,     \* project headers that carry an include guard of their own
  onceFiles,   \* files marked #pragma once or reached through #import
  visible,     \* files whose contents have been read
  entries,     \* each read of a file: who asked, and was <tuple> visible then
  requests,    \* each inclusion directive executed
  errors,      \* inclusion directives that did not resolve
  decls,       \* declarations visible, with the file that made them
  macros,      \* macros defined, with the file that defined them
  exec,        \* how often each line of the header has been processed
  bridgeRequests, \* inclusions of the header asked for by the translation unit
  bridgeEnters    \* times the header's contents were actually entered

vars == <<pc, tuDone, guarded, onceFiles, visible, entries, requests, errors,
          decls, macros, exec, bridgeRequests, bridgeEnters>>

Init ==
  /\ pc = 0
  /\ tuDone = 0
  /\ guarded \in SUBSET QuotedPaths
  /\ onceFiles = {}
  /\ visible = {}
  /\ entries = {}
  /\ requests = {}
  /\ errors = {}
  /\ decls = {}
  /\ macros = {}
  /\ exec = [i \in 1..NumLines |-> 0]
  /\ bridgeRequests = 0
  /\ bridgeEnters = 0

\* Whether the preprocessor reads the contents of file f for this directive:
\* never when f is marked once; #import also skips a file already read;
\* a guarded file's contents are skipped on every read after the first.
ShouldEnter(kind, f) ==
  /\ f \notin onceFiles
  /\ ~(kind = "import" /\ f \in visible)
  /\ ~((f \in guarded \/ f \in SystemHeaders) /\ f \in visible)

\* #import marks its target include-once.
MarkOnce(kind, f) == IF kind = "import" THEN onceFiles \cup {f} ELSE onceFiles

\* One inclusion of a header other than the bridging header, asked for by `by`.
\* The header and whatever it includes are read as one unit.
IncludeOther(by, kind, path, angled) ==
  /\ requests' = requests \cup {[by |-> by, kind |-> kind, path |-> path, angled |-> angled]}
  /\ IF ~Resolves(path, angled)
     THEN /\ errors' = errors \cup {[by |-> by, path |-> path]}
          /\ UNCHANGED <<onceFiles, visible, entries, decls>>
     ELSE /\ errors' = errors
          /\ onceFiles' = MarkOnce(kind, path)
          /\ IF ShouldEnter(kind, path)
             THEN /\ visible' = visible \cup {path}
                  /\ entries' = entries \cup {[file |-> path, by |-> by, tupleSeen |-> "tuple" \in visible]}
                  /\ decls' = decls \cup {[owner |-> path, sym |-> path]}
             ELSE UNCHANGED <<visible, entries, decls>>

\* The translation unit includes or imports the bridging header.
TUBridge(kind) ==
  /\ pc = 0
  /\ tuDone < MaxTU
  /\ tuDone' = tuDone + 1
  /\ bridgeRequests' = bridgeRequests + 1
  /\ requests' = requests \cup {[by |-> "TU", kind |-> kind, path |-> Bridge, angled |-> FALSE]}
  /\ onceFiles' = MarkOnce(kind, Bridge)
  /\ IF Bridge \notin onceFiles /\ ~(kind = "import" /\ Bridge \in visible)
     THEN /\ pc' = 1
          /\ bridgeEnters' = bridgeEnters + 1
          /\ visible' = visible \cup {Bridge}
          /\ entries' = entries \cup {[file |-> Bridge, by |-> "TU", tupleSeen |-> "tuple" \in visible]}
     ELSE UNCHANGED <<pc, bridgeEnters, visible, entries>>
  /\ UNCHANGED <<guarded, errors, decls, macros, exec>>

\* The translation unit includes or imports one of the other headers directly.
TUOther(kind, path, angled) ==
  /\ pc = 0
  /\ tuDone < MaxTU
  /\ tuDone' = tuDone + 1
  /\ IncludeOther("TU", kind, path, angled)
  /\ UNCHANGED <<pc, guarded, macros, exec, bridgeRequests, bridgeEnters>>

AtLine == pc \in 1..NumLines
Line == BridgeLines[pc]
Advance == pc' = pc + 1 /\ exec' = [exec EXCEPT ![pc] = @ + 1]

\* Lines 1-7, 9, 10, 12: comments and blank lines (and any text of the header's own).
BridgePassive ==
  /\ AtLine
  /\ Line.kind \notin {"pragma_once", "include", "import"}
  /\ Advance
  /\ decls' = decls \cup DeclsOf(Line)
  /\ macros' = macros \cup MacrosOf(Line)
  /\ UNCHANGED <<tuDone, guarded, onceFiles, visible, entries, requests, errors,
                 bridgeRequests, bridgeEnters>>

\* Line 8: #pragma once.
BridgePragmaOnce ==
  /\ AtLine
  /\ Line.kind = "pragma_once"
  /\ Advance
  /\ onceFiles' = onceFiles \cup {Bridge}
  /\ UNCHANGED <<tuDone, guarded, visible, entries, requests, errors, decls, macros,
                 bridgeRequests, bridgeEnters>>

\* Line 11: #include <tuple>.
BridgeInclude ==
  /\ AtLine
  /\ Line.kind = "include"
  /\ Advance
  /\ IncludeOther(Bridge, "include", Line.path, Line.angled)
  /\ UNCHANGED <<tuDone, guarded, macros, bridgeRequests, bridgeEnters>>

\* Lines 13-16: #import "...".
BridgeImport ==
  /\ AtLine
  /\ Line.kind = "import"
  /\ Advance
  /\ IncludeOther(Bridge, "import", Line.path, Line.angled)
  /\ UNCHANGED <<tuDone, guarded, macros, bridgeRequests, bridgeEnters>>

\* End of the header: back to the translation unit.
BridgeEOF ==
  /\ pc = NumLines + 1
  /\ pc' = 0
  /\ UNCHANGED <<tuDone, guarded, onceFiles, visible, entries, requests, errors,
                 decls, macros, exec, bridgeRequests, bridgeEnters>>

Next ==
  \/ \E kind \in {"include", "import"} : TUBridge(kind)
  \/ \E kind \in {"include", "import"} : \E p \in QuotedPaths : TUOther(kind, p, FALSE)
  \/ \E kind \in {"include", "import"} : \E p \in AngledPaths : TUOther(kind, p, TRUE)
  \/ BridgePassive
  \/ BridgePragmaOnce
  \/ BridgeInclude
  \/ BridgeImport
  \/ BridgeEOF

Spec == Init /\ [][Next]_vars

BridgeRead == pc = 0 /\ bridgeEnters >= 1
ByBridge == {r \in requests : r.by = Bridge}

\* The four project headers the specification lists.
FourPaths ==
  {"Frame/InputImage.hpp", "Session/NativeSession.hpp",
   "NativeDocumentVerify.hpp", "License/NativeLicenseProvider.hpp"}

QuotedByBridge == {r.path : r \in {q \in ByBridge : ~q.angled}}
AngledByBridge == {r.path : r \in {q \in ByBridge : q.angled}}

\* C1: the project headers SwiftCxxBridge.hpp asks for are exactly the four
\* listed paths, its only other inclusion is <tuple>, and once the header has
\* been read all four are visible.
C1_ExactlyFourHeaders ==
  /\ QuotedByBridge \subseteq FourPaths
  /\ AngledByBridge \subseteq {"tuple"}
  /\ BridgeRead => /\ QuotedByBridge = FourPaths
                   /\ AngledByBridge = {"tuple"}
                   /\ FourPaths \subseteq visible

C1_Witness ==
  /\ BridgeRead
  /\ Cardinality(QuotedByBridge) = 4
  /\ "tuple" \in AngledByBridge

\* C2: the header introduces no declaration and no macro of its own; every
\* declaration comes from a header that was read, and a line of the header
\* that is not an inclusion leaves declarations, macros and the set of read
\* files as they were.
C2_DefinesNothing ==
  [][ /\ \A d \in decls' : d.owner # Bridge /\ d.owner \in visible'
      /\ \A m \in macros' : m.owner # Bridge
      /\ (AtLine /\ ~IsInclusion(Line))
           => (decls' = decls /\ macros' = macros /\ visible' = visible) ]_vars

C2_Witness ==
  /\ BridgeRead
  /\ \A i \in 1..NumLines : exec[i] = 1
  /\ {d.owner : d \in decls} = visible \ {Bridge}
  /\ decls # {}

C4_TupleFirst ==
  /\ (AtLine /\ Line.kind = "import") => "tuple" \in visible
  /\ \A e \in entries : (e.by = Bridge /\ e.file # "tuple") => e.tupleSeen

C4_Witness ==
  /\ \E e \in entries : e.by = Bridge /\ e.file = "tuple"
  /\ Cardinality({e \in entries : e.by = Bridge /\ e.file # "tuple" /\ e.tupleSeen}) = 4

\* C5: the header's contents are entered at most once per translation unit,
\* none of its lines is processed twice, and a further inclusion asked for
\* after the first one changes neither the visible headers nor anything the
\* header's directives touch.
C5_Idempotent ==
  [][ /\ bridgeEnters' <= 1
      /\ \A i \in 1..NumLines : exec'[i] <= 1
      /\ (bridgeRequests >= 1 /\ bridgeRequests' > bridgeRequests)
           => /\ pc' = 0
              /\ visible' = visible
              /\ entries' = entries
              /\ decls' = decls
              /\ exec' = exec ]_vars

C5_Witness ==
  /\ pc = 0
  /\ bridgeRequests >= 2
  /\ bridgeEnters = 1
  /\ \E r \in requests : r.by = "TU" /\ r.path = Bridge /\ r.kind = "include"
  /\ \A i \in 1..NumLines : exec[i] = 1

====
